---- MODULE Spec2Model ----
(***************************************************************************)
(* Bulk customer validation with a worker pool                             *)
(* (POST /customers/bulk-validate, bulkValidateWithWorkerPool and          *)
(* validateCustomer).                                                      *)
(*                                                                         *)
(* Strings are sequences of one-character strings, so that TrimSpace,      *)
(* Contains, ToLower, HasSuffix and len are computed and not assumed.      *)
(* Both channels are unbuffered: a send and the matching receive are one   *)
(* joint step.  The worker goroutines are anonymous closures, so the pool  *)
(* is the bag of their local states.                                       *)
(***************************************************************************)
EXTENDS Bags, FiniteSets, Integers, Sequences, TLC

\* ---------------------------------------------------------------- bounds
MaxBatch == 3

\* ------------------------------------------------------ program constants
DefaultWorkers == 5
MaxWorkers == 20
MaxEmailLen == 150

\* ------------------------------------------------------- string helpers
UpperCase == <<"A","B","C","D","E","F","G","H","I","J","K","L","M",
               "N","O","P","Q","R","S","T","U","V","W","X","Y","Z">>
LowerCase == <<"a","b","c","d","e","f","g","h","i","j","k","l","m",
               "n","o","p","q","r","s","t","u","v","w","x","y","z">>

\* The white space of unicode.IsSpace.  The vertical tab has no escape in a
\* TLA+ string: it is written as the character itself and by its code
\* point; the characters outside ASCII are written by their code point.
VerticalTab == {"", "U+000B"}

Latin1Spaces == {"U+0085", "U+00A0"}

UnicodeSpaces ==
    {"U+1680", "U+2000", "U+2001", "U+2002", "U+2003", "U+2004", "U+2005",
     "U+2006", "U+2007", "U+2008", "U+2009", "U+200A", "U+2028", "U+2029",
     "U+202F", "U+205F", "U+3000"}

\* unicode.IsSpace, as strings.TrimSpace uses it
isSpace(c) ==
    c \in {" ", "\t", "\n", "\r", "\f"} \cup VerticalTab
           \cup Latin1Spaces \cup UnicodeSpaces

\* strings.TrimSpace: the slice from the first to the last non-space character
TrimSpace(s) ==
    IF \A k \in 1..Len(s) : isSpace(s[k]) THEN <<>>
    ELSE SubSeq(s,
                CHOOSE a \in 1..Len(s) :
                    ~isSpace(s[a]) /\ \A b \in 1..(a - 1) : isSpace(s[b]),
                CHOOSE a \in 1..Len(s) :
                    ~isSpace(s[a]) /\ \A b \in (a + 1)..Len(s) : isSpace(s[b]))

\* strings.Contains
Contains(s, sub) ==
    \E k \in 0..(Len(s) - Len(sub)) : SubSeq(s, k + 1, k + Len(sub)) = sub

LowerChar(c) ==
    IF \E k \in 1..26 : UpperCase[k] = c
    THEN LowerCase[CHOOSE k \in 1..26 : UpperCase[k] = c]
    ELSE c

\* strings.ToLower
ToLower(s) == [k \in 1..Len(s) |-> LowerChar(s[k])]

\* strings.HasSuffix
HasSuffix(s, suffix) ==
    /\ Len(s) >= Len(suffix)
    /\ SubSeq(s, Len(s) - Len(suffix) + 1, Len(s)) = suffix

ExampleDomain == <<"@","e","x","a","m","p","l","e",".","c","o","m">>

\* characters outside ASCII, written by their code point: U+00E9 (e acute)
\* and the Latin-1 spaces are one character and two bytes in UTF-8
WideChars == {"U+00E9"} \cup Latin1Spaces

\* the spaces from U+1680 on are three bytes in UTF-8
WiderChars == UnicodeSpaces

\* len(s) of a Go string: its number of bytes
ByteLen(s) ==
    Len(s) + Cardinality({ k \in 1..Len(s) : s[k] \in WideChars })
           + 2 * Cardinality({ k \in 1..Len(s) : s[k] \in WiderChars })

\* ------------------------------------------------------------- validator
\* the if-chain of validateCustomer over its two locals
Rules_NoMessage(name, email) ==
    IF name = <<>> THEN [ok |-> FALSE, msg |-> "full_name is required"]
    ELSE IF email = <<>> THEN [ok |-> FALSE, msg |-> "email is required"]
    ELSE IF ~Contains(email, <<"@">>)
         THEN [ok |-> FALSE, msg |-> "email must contain '@'"]
    ELSE IF ByteLen(email) > MaxEmailLen
         THEN [ok |-> FALSE, msg |-> "email too long"]
    ELSE IF HasSuffix(ToLower(email), ExampleDomain)
         THEN [ok |-> FALSE, msg |-> ""]
    ELSE [ok |-> TRUE, msg |-> ""]

Rules_EmailFirst(name, email) ==
    IF email = <<>> THEN [ok |-> FALSE, msg |-> "email is required"]
    ELSE IF name = <<>> THEN [ok |-> FALSE, msg |-> "full_name is required"]
    ELSE IF ~Contains(email, <<"@">>)
         THEN [ok |-> FALSE, msg |-> "email must contain '@'"]
    ELSE IF ByteLen(email) > MaxEmailLen
         THEN [ok |-> FALSE, msg |-> "email too long"]
    ELSE IF HasSuffix(ToLower(email), ExampleDomain)
         THEN [ok |-> FALSE, msg |-> "example.com emails are not allowed"]
    ELSE [ok |-> TRUE, msg |-> ""]

Rules(name, email) ==
    IF name = <<>> THEN [ok |-> FALSE, msg |-> "full_name is required"]
    ELSE IF email = <<>> THEN [ok |-> FALSE, msg |-> "email is required"]
    ELSE IF ~Contains(email, <<"@">>)
         THEN [ok |-> FALSE, msg |-> "email must contain '@'"]
    ELSE IF ByteLen(email) > MaxEmailLen
         THEN [ok |-> FALSE, msg |-> "email too long"]
    ELSE IF HasSuffix(ToLower(email), ExampleDomain)
         THEN [ok |-> FALSE, msg |-> "example.com emails are not allowed"]
    ELSE [ok |-> TRUE, msg |-> ""]

\* name := strings.TrimSpace(c.FullName); email := strings.TrimSpace(c.Email);
\* the locals are computed once and then tested by the if-chain
validateCustomer(c) ==
    CHOOSE v \in { Rules(name, email) : name \in {TrimSpace(c.FullName)},
                                        email \in {TrimSpace(c.Email)} } : TRUE

\* ------------------------------------------------------------ data types
\* the zero value of ValidateResult, as make([]ValidateResult, n) fills it
ZeroResult == [Index |-> 0, Email |-> <<>>, Valid |-> FALSE, Message |-> ""]

\* job{index: i, data: c}
MakeJob_IndexZero(i, c) == [index |-> 0, data |-> c]

MakeJob(i, c) == [index |-> i, data |-> c]

\* the ValidateResult a worker builds for job j
MakeResult_NoIndex(j) ==
    CHOOSE r \in { [Index |-> 0, Email |-> TrimSpace(j.data.Email),
                    Valid |-> v.ok, Message |-> v.msg] :
                   v \in {validateCustomer(j.data)} } : TRUE

MakeResult_RawEmail(j) ==
    CHOOSE r \in { [Index |-> j.index, Email |-> j.data.Email,
                    Valid |-> v.ok, Message |-> v.msg] :
                   v \in {validateCustomer(j.data)} } : TRUE

MakeResult(j) ==
    CHOOSE r \in { [Index |-> j.index, Email |-> TrimSpace(j.data.Email),
                    Valid |-> v.ok, Message |-> v.msg] :
                   v \in {validateCustomer(j.data)} } : TRUE

\* workers := req.Workers; if workers <= 0 {5}; if workers > 20 {20}
ResolveWorkers_NoUpperClamp(n) ==
    IF n <= 0 THEN DefaultWorkers ELSE n

ResolveWorkers_NoDefault(n) ==
    IF n > MaxWorkers THEN MaxWorkers ELSE n

ResolveWorkers(n) ==
    LET w1 == IF n <= 0 THEN DefaultWorkers ELSE n
    IN  IF w1 > MaxWorkers THEN MaxWorkers ELSE w1

\* ---------------------------------------------------------------- inputs
\* the batches of the pool runs: a valid record and an invalid one whose
\* email needs trimming and lowering
NameA   == <<"A">>
EmailOk == <<"a","@","b">>
EmailEx == <<" ","x","@","E","x","a","m","p","l","e",".","c","o","m","\t">>

PoolRecords ==
    { [FullName |-> NameA, Email |-> EmailOk],
      [FullName |-> NameA, Email |-> EmailEx] }

Batches(R, n) == UNION { [0..(k - 1) -> R] : k \in 0..n }

RequestedWorkers == {-1, 0, 1, 2, 20, 21}

\* records that exercise every rule of the validator, alone and combined
ValBatch == 1

Pad(n) == [k \in 1..n |-> "a"]

WidePad(n) == [k \in 1..n |-> "U+00E9"]

ValNames == { <<>>, <<" ", "\t">>, <<"A">>, <<" ", "A", "b", "\n">>,
              <<"U+000B", "U+00A0">> }

ValEmails ==
    { <<>>,
      <<" ", "\t">>,
      <<"a","@","b",".","c","o","m">>,
      <<" ","a","@","b","\n">>,
      <<"n","o","-","a","t">>,
      <<"e","x","a","m","p","l","e",".","c","o","m">>,
      <<"x">> \o ExampleDomain,
      ExampleDomain,
      <<"\t","X","@","E","X","A","M","P","L","E",".","C","O","M"," ">>,
      <<"x">> \o ExampleDomain \o <<".","a","u">>,
      <<"x","@","e","x","a","m","p","l","e",".","c","o">>,
      Pad(MaxEmailLen - 2) \o <<"@","b">>,
      <<" ">> \o Pad(MaxEmailLen - 2) \o <<"@","b"," ">>,
      Pad(MaxEmailLen - 1) \o <<"@","b">>,
      Pad(MaxEmailLen + 1),
      Pad(MaxEmailLen - Len(ExampleDomain)) \o ExampleDomain,
      Pad(MaxEmailLen - Len(ExampleDomain) + 1) \o ExampleDomain,
      WidePad(3) \o <<"@","b">>,
      WidePad(MaxEmailLen \div 2 - 1) \o <<"@","b">>,
      WidePad(MaxEmailLen \div 2) \o <<"@","b">>,
      <<"U+000B","x">> \o ExampleDomain \o <<"U+2028","U+0085">>,
      Pad(MaxEmailLen - 4) \o <<"U+3000","@","b">> }

ValRecords == { [FullName |-> n, Email |-> e] : n \in ValNames, e \in ValEmails }

\* ----------------------------------------------------------------- state
VARIABLES
    req,         \* the decoded BulkValidateRequest
    bindOk,      \* whether ShouldBindJSON succeeds
    hpc,         \* position of the request goroutine (handler + pool call)
    workers,     \* the handler's local "workers"
    w,           \* the spawn loop counter
    pool,        \* bag of the worker goroutines' local states
    jobsClosed,  \* close(jobs) has happened
    ppc,         \* position of the producer goroutine
    pi,          \* the producer's loop index
    out,         \* the collector's array
    ci,          \* the collector's loop index
    response,    \* what c.JSON wrote
    taken,       \* history: how often job index i was received by a worker
    produced,    \* history: how often an outcome with index i was built
    arrived,     \* history: the indices assigned to out, in order of arrival
    calls,       \* two concurrent pool calls: the state of each call
    users,       \* main.go: the package-level slice of users
    handlers     \* main.go: the running usersHandler goroutines

vars == <<req, bindOk, hpc, workers, w, pool, jobsClosed, ppc, pi, out, ci,
          response, taken, produced, arrived, calls, users, handlers>>

\* the variables of the single request
reqVars == <<req, bindOk, hpc, workers, w, pool, jobsClosed, ppc, pi, out, ci,
             response, taken, produced, arrived>>

N == Cardinality(DOMAIN req.Customers)

Idle       == [pc |-> "recv"]
Working(j) == [pc |-> "work", j |-> j]
Sending(r) == [pc |-> "send", r |-> r]
Exited     == [pc |-> "done"]

One(s) == SetToBag({s})
Move(B, s, t) == (B (-) One(s)) (+) One(t)

NoResponse == [status |-> 0]

InitWith(R, W, n) ==
    /\ req \in { [Workers |-> rw, Customers |-> cs] :
                   rw \in W, cs \in Batches(R, n) }
    /\ bindOk \in BOOLEAN
    /\ hpc = "bind"
    /\ workers = 0
    /\ w = 0
    /\ pool = EmptyBag
    /\ jobsClosed = FALSE
    /\ ppc = "unborn"
    /\ pi = 0
    /\ out = <<>>
    /\ ci = 0
    /\ response = NoResponse
    /\ taken = [i \in DOMAIN req.Customers |-> 0]
    /\ produced = [i \in DOMAIN req.Customers |-> 0]
    /\ arrived = <<>>
    /\ calls = <<>>
    /\ users = <<>>
    /\ handlers = <<>>

Init == InitWith(PoolRecords, RequestedWorkers, MaxBatch)

\* one request goroutine, one worker, batches of validator test records
ValInit == InitWith(ValRecords, {1}, ValBatch)

\* ------------------------------------------------------ request goroutine
\* c.ShouldBindJSON(&req): 400 on failure
Bind ==
    /\ hpc = "bind"
    /\ IF bindOk
       THEN /\ hpc' = "resolve"
            /\ workers' = req.Workers
            /\ UNCHANGED response
       ELSE /\ hpc' = "done"
            /\ response' = [status |-> 400, code |-> "invalid_json"]
            /\ UNCHANGED workers
    /\ UNCHANGED <<users, handlers, calls, req, bindOk, w, pool, jobsClosed, ppc, pi, out, ci,
                   taken, produced, arrived>>

\* the two clamping ifs, then the call: make(chan job), make(chan result)
Resolve ==
    /\ hpc = "resolve"
    /\ workers' = ResolveWorkers(workers)
    /\ hpc' = "spawn"
    /\ w' = 0
    /\ UNCHANGED <<users, handlers, calls, req, bindOk, pool, jobsClosed, ppc, pi, out, ci,
                   response, taken, produced, arrived>>

\* the loop condition of the spawn loop: w < workers
SpawnMore_OneExtra(k, n) == k <= n

SpawnMore(k, n) == k < n

\* for w := 0; w < workers; w++ { go func() {...}() }
SpawnWorker ==
    /\ hpc = "spawn"
    /\ SpawnMore(w, workers)
    /\ pool' = pool (+) One(Idle)
    /\ w' = w + 1
    /\ UNCHANGED <<users, handlers, calls, req, bindOk, hpc, workers, jobsClosed, ppc, pi, out, ci,
                   response, taken, produced, arrived>>

\* the spawn loop ends; go func() { producer }()
StartProducer ==
    /\ hpc = "spawn"
    /\ ~SpawnMore(w, workers)
    /\ ppc' = "send"
    /\ pi' = 0
    /\ hpc' = "alloc"
    /\ UNCHANGED <<users, handlers, calls, req, bindOk, workers, w, pool, jobsClosed, out, ci,
                   response, taken, produced, arrived>>

\* out := make([]ValidateResult, len(customers)); i := 0
Alloc ==
    /\ hpc = "alloc"
    /\ out' = [i \in DOMAIN req.Customers |-> ZeroResult]
    /\ ci' = 0
    /\ hpc' = "collect"
    /\ UNCHANGED <<users, handlers, calls, req, bindOk, workers, w, pool, jobsClosed, ppc, pi,
                   response, taken, produced, arrived>>

\* the loop condition of the collector: i < len(customers)
CollectMore_OneExtra(i, n) == i <= n

CollectMore_OneShort(i, n) == i < n - 1

CollectMore(i, n) == i < n

\* out[r.Index] = r
Store_ArrivalOrder(o, i, r) == [o EXCEPT ![i] = r]

Store_Renumbered(o, i, r) == [o EXCEPT ![i] = [r EXCEPT !.Index = i]]

Store(o, i, r) == [o EXCEPT ![r.Index] = r]

\* where a worker goes after its send on resultsCh completed
AfterSend_StopOnInvalid(r) == IF r.Valid THEN Idle ELSE Exited

AfterSend(r) == Idle

\* r := <-resultsCh (joint with the worker's resultsCh <- ...); out[r.Index] = r
Collect(r) ==
    /\ hpc = "collect"
    /\ CollectMore(ci, N)
    /\ BagIn(Sending(r), pool)
    /\ out' = Store(out, ci, r)
    /\ arrived' = Append(arrived, r.Index)
    /\ ci' = ci + 1
    /\ pool' = Move(pool, Sending(r), AfterSend(r))
    /\ UNCHANGED <<users, handlers, calls, req, bindOk, hpc, workers, w, jobsClosed, ppc, pi,
                   response, taken, produced>>

\* return out
Return ==
    /\ hpc = "collect"
    /\ ~CollectMore(ci, N)
    /\ hpc' = "respond"
    /\ UNCHANGED <<users, handlers, calls, req, bindOk, workers, w, pool, jobsClosed, ppc, pi, out,
                   ci, response, taken, produced, arrived>>

\* c.JSON(http.StatusOK, gin.H{...})
Respond ==
    /\ hpc = "respond"
    /\ response' = [status |-> 200, workers |-> workers, count |-> N,
                    results |-> out]
    /\ hpc' = "done"
    /\ UNCHANGED <<users, handlers, calls, req, bindOk, workers, w, pool, jobsClosed, ppc, pi, out,
                   ci, taken, produced, arrived>>

\* ----------------------------------------------------- producer goroutine
\* the producer's range loop has another element: i < len(customers)
ProducerMore_SkipLast(i, n) == i < n - 1

ProducerMore(i, n) == i < n

\* the state of the jobs channel after the producer's loop: close(jobs)
CloseJobs_Forgotten(closed) == closed

CloseJobs(closed) == TRUE

\* jobs <- job{index: i, data: c}, joint with a worker's receive
ProducerSend ==
    /\ ppc = "send"
    /\ ProducerMore(pi, N)
    /\ ~jobsClosed
    /\ BagIn(Idle, pool)
    /\ LET j == MakeJob(pi, req.Customers[pi])
       IN  /\ pool' = Move(pool, Idle, Working(j))
           /\ taken' = [taken EXCEPT ![j.index] = @ + 1]
    /\ pi' = pi + 1
    /\ UNCHANGED <<users, handlers, calls, req, bindOk, hpc, workers, w, jobsClosed, ppc, out, ci,
                   response, produced, arrived>>

\* close(jobs)
ProducerClose ==
    /\ ppc = "send"
    /\ ~ProducerMore(pi, N)
    /\ jobsClosed' = CloseJobs(jobsClosed)
    /\ ppc' = "done"
    /\ UNCHANGED <<users, handlers, calls, req, bindOk, hpc, workers, w, pool, pi, out, ci,
                   response, taken, produced, arrived>>

\* ------------------------------------------------------ worker goroutines
\* time.Sleep; validateCustomer(j.data); build the ValidateResult
WorkerProcess(j) ==
    /\ BagIn(Working(j), pool)
    /\ \E r \in {MakeResult(j)} :
           /\ pool' = Move(pool, Working(j), Sending(r))
           /\ produced' = [produced EXCEPT ![r.Index] = @ + 1]
    /\ UNCHANGED <<users, handlers, calls, req, bindOk, hpc, workers, w, jobsClosed, ppc, pi, out,
                   ci, response, taken, arrived>>

\* "for j := range jobs" ends on the closed, empty channel
WorkerExit ==
    /\ BagIn(Idle, pool)
    /\ jobsClosed
    /\ pool' = Move(pool, Idle, Exited)
    /\ UNCHANGED <<users, handlers, calls, req, bindOk, hpc, workers, w, jobsClosed, ppc, pi, out,
                   ci, response, taken, produced, arrived>>

InPool == BagToSet(pool)
JobsHeld == { s.j : s \in { t \in InPool : t.pc = "work" } }
ResultsHeld == { s.r : s \in { t \in InPool : t.pc = "send" } }

CollectAny == \E r \in ResultsHeld : Collect(r)
WorkerProcessAny == \E j \in JobsHeld : WorkerProcess(j)

Next ==
    \/ Bind
    \/ Resolve
    \/ SpawnWorker
    \/ StartProducer
    \/ Alloc
    \/ CollectAny
    \/ Return
    \/ Respond
    \/ ProducerSend
    \/ ProducerClose
    \/ WorkerProcessAny
    \/ WorkerExit

Spec == Init /\ [][Next]_vars

Fairness == WF_vars(Next)

FairSpec == Spec /\ Fairness

ValSpec == ValInit /\ [][Next]_vars

\* ------------------------------------------- two concurrent pool calls
\* Two requests served at once: each call of bulkValidateWithWorkerPool
\* makes its own jobs channel, resultsCh and out.  The steps are those of
\* the single call above, taken on the state of call c.
TwoBatch == 1

CallIds == {1, 2}

TwoWorkers == {1, 2}

\* the state of a call on entry: jobs and resultsCh just made
NewCall(cs, n) ==
    [customers |-> cs, workers |-> n, pc |-> "spawn", w |-> 0,
     pool |-> EmptyBag, closed |-> FALSE, ppc |-> "unborn", pi |-> 0,
     out |-> <<>>, ci |-> 0, from |-> <<>>]

\* a goroutine of call d uses the channels of call c
SameQueue_Shared(c, d) == TRUE

SameQueue(c, d) == c = d

CallN(c) == Cardinality(DOMAIN calls[c].customers)

\* no bulk-validate request is being served
NoRequest ==
    /\ req = [Workers |-> 0, Customers |-> <<>>]
    /\ bindOk = FALSE
    /\ hpc = "done"
    /\ workers = 0
    /\ w = 0
    /\ pool = EmptyBag
    /\ jobsClosed = FALSE
    /\ ppc = "unborn"
    /\ pi = 0
    /\ out = <<>>
    /\ ci = 0
    /\ response = NoResponse
    /\ taken = <<>>
    /\ produced = <<>>
    /\ arrived = <<>>

TwoInit ==
    /\ calls \in [CallIds -> { NewCall(cs, n) :
                                 cs \in Batches(PoolRecords, TwoBatch),
                                 n \in TwoWorkers }]
    /\ NoRequest
    /\ users = <<>>
    /\ handlers = <<>>

CallSpawnWorker(c) ==
    /\ calls[c].pc = "spawn"
    /\ SpawnMore(calls[c].w, calls[c].workers)
    /\ calls' = [calls EXCEPT ![c].pool = @ (+) One(Idle), ![c].w = @ + 1]
    /\ UNCHANGED <<reqVars, users, handlers>>

CallStartProducer(c) ==
    /\ calls[c].pc = "spawn"
    /\ ~SpawnMore(calls[c].w, calls[c].workers)
    /\ calls' = [calls EXCEPT ![c].ppc = "send", ![c].pi = 0, ![c].pc = "alloc"]
    /\ UNCHANGED <<reqVars, users, handlers>>

CallAlloc(c) ==
    /\ calls[c].pc = "alloc"
    /\ calls' = [calls EXCEPT
                   ![c].out = [i \in DOMAIN calls[c].customers |-> ZeroResult],
                   ![c].ci = 0,
                   ![c].pc = "collect"]
    /\ UNCHANGED <<reqVars, users, handlers>>

\* the collector of call c receives the outcome r a worker of call d sends
CallCollect(c, d, r) ==
    /\ SameQueue(c, d)
    /\ calls[c].pc = "collect"
    /\ CollectMore(calls[c].ci, CallN(c))
    /\ BagIn(Sending(r), calls[d].pool)
    /\ calls' = [[calls EXCEPT ![d].pool = Move(@, Sending(r), AfterSend(r))]
                   EXCEPT ![c].out = Store(@, calls[c].ci, r),
                          ![c].ci = @ + 1,
                          ![c].from = Append(@, d)]
    /\ UNCHANGED <<reqVars, users, handlers>>

CallReturn(c) ==
    /\ calls[c].pc = "collect"
    /\ ~CollectMore(calls[c].ci, CallN(c))
    /\ calls' = [calls EXCEPT ![c].pc = "returned"]
    /\ UNCHANGED <<reqVars, users, handlers>>

\* the producer of call c hands its next job to a worker of call d
CallProducerSend(c, d) ==
    /\ SameQueue(c, d)
    /\ calls[c].ppc = "send"
    /\ ProducerMore(calls[c].pi, CallN(c))
    /\ ~calls[c].closed
    /\ BagIn(Idle, calls[d].pool)
    /\ calls' = [[calls EXCEPT ![d].pool =
                     Move(@, Idle,
                          Working(MakeJob(calls[c].pi,
                                          calls[c].customers[calls[c].pi])))]
                   EXCEPT ![c].pi = @ + 1]
    /\ UNCHANGED <<reqVars, users, handlers>>

CallProducerClose(c) ==
    /\ calls[c].ppc = "send"
    /\ ~ProducerMore(calls[c].pi, CallN(c))
    /\ calls' = [calls EXCEPT ![c].closed = CloseJobs(@), ![c].ppc = "done"]
    /\ UNCHANGED <<reqVars, users, handlers>>

CallWorkerProcess(c, j) ==
    /\ BagIn(Working(j), calls[c].pool)
    /\ calls' = [calls EXCEPT
                   ![c].pool = Move(@, Working(j), Sending(MakeResult(j)))]
    /\ UNCHANGED <<reqVars, users, handlers>>

CallWorkerExit(c) ==
    /\ BagIn(Idle, calls[c].pool)
    /\ calls[c].closed
    /\ calls' = [calls EXCEPT ![c].pool = Move(@, Idle, Exited)]
    /\ UNCHANGED <<reqVars, users, handlers>>

CallJobsHeld(c) ==
    { s.j : s \in { t \in BagToSet(calls[c].pool) : t.pc = "work" } }
CallResultsHeld(c) ==
    { s.r : s \in { t \in BagToSet(calls[c].pool) : t.pc = "send" } }

TwoSpawnWorker   == \E c \in CallIds : CallSpawnWorker(c)
TwoStartProducer == \E c \in CallIds : CallStartProducer(c)
TwoAlloc         == \E c \in CallIds : CallAlloc(c)
TwoCollect ==
    \E c, d \in CallIds : \E r \in CallResultsHeld(d) : CallCollect(c, d, r)
TwoReturn        == \E c \in CallIds : CallReturn(c)
TwoProducerSend  == \E c, d \in CallIds : CallProducerSend(c, d)
TwoProducerClose == \E c \in CallIds : CallProducerClose(c)
TwoWorkerProcess ==
    \E c \in CallIds : \E j \in CallJobsHeld(c) : CallWorkerProcess(c, j)
TwoWorkerExit    == \E c \in CallIds : CallWorkerExit(c)

TwoNext ==
    \/ TwoSpawnWorker
    \/ TwoStartProducer
    \/ TwoAlloc
    \/ TwoCollect
    \/ TwoReturn
    \/ TwoProducerSend
    \/ TwoProducerClose
    \/ TwoWorkerProcess
    \/ TwoWorkerExit

TwoSpec == TwoInit /\ [][TwoNext]_vars

\* ------------------------------------------------ main.go: /users
\* net/http serves every request on a goroutine of its own, and usersHandler
\* reads and writes the package-level slice "users" without a lock: the
\* loads and the store of a POST are separate steps that other handlers
\* interleave with.
MaxRequests == 2

Slots == 1..MaxRequests

UserNames == {"", "X", "Y"}

Methods == {"GET", "POST", "DELETE"}

StatusOK == 200

StatusCreated == 201

StatusBadRequest == 400

StatusMethodNotAllowed == 405

User(id, name) == [ID |-> id, Name |-> name]

InitialUsers == <<User(1, "Abdi"), User(2, "Budi")>>

\* a request as it arrives: GET and DELETE carry no body
Requests ==
    { [method |-> m, decodeOk |-> ok, name |-> n] :
        m \in {"POST"}, ok \in BOOLEAN, n \in UserNames }
    \cup { [method |-> m, decodeOk |-> FALSE, name |-> ""] :
             m \in Methods \ {"POST"} }

NewHandler(q) ==
    [method |-> q.method, decodeOk |-> q.decodeOk, name |-> q.name,
     pc |-> "switch", newID |-> 0, snap |-> <<>>, status |-> 0]

UsersInit ==
    /\ users = InitialUsers
    /\ handlers \in [Slots -> { NewHandler(q) : q \in Requests }]
    /\ calls = <<>>
    /\ NoRequest

\* newID := 1; if len(users) > 0 { newID = users[len(users)-1].ID + 1 }
NextID(us) == IF Len(us) > 0 THEN us[Len(us)].ID + 1 ELSE 1

\* case http.MethodGet: the list is encoded into the response
HandleGet(h) ==
    /\ handlers[h].pc = "switch"
    /\ handlers[h].method = "GET"
    /\ handlers' = [handlers EXCEPT ![h].status = StatusOK,
                                    ![h].snap = users,
                                    ![h].pc = "done"]
    /\ UNCHANGED <<users, calls, reqVars>>

\* default: 405
HandleOther(h) ==
    /\ handlers[h].pc = "switch"
    /\ handlers[h].method \notin {"GET", "POST"}
    /\ handlers' = [handlers EXCEPT ![h].status = StatusMethodNotAllowed,
                                    ![h].pc = "done"]
    /\ UNCHANGED <<users, calls, reqVars>>

\* case http.MethodPost, 1) Decode; on error 400 and return
PostDecode(h) ==
    /\ handlers[h].pc = "switch"
    /\ handlers[h].method = "POST"
    /\ handlers' = IF handlers[h].decodeOk
                   THEN [handlers EXCEPT ![h].pc = "validate"]
                   ELSE [handlers EXCEPT ![h].status = StatusBadRequest,
                                         ![h].pc = "done"]
    /\ UNCHANGED <<users, calls, reqVars>>

\* 2) payload.Name == "": 400 and return
PostValidate(h) ==
    /\ handlers[h].pc = "validate"
    /\ handlers' = IF handlers[h].name = ""
                   THEN [handlers EXCEPT ![h].status = StatusBadRequest,
                                         ![h].pc = "done"]
                   ELSE [handlers EXCEPT ![h].pc = "newID"]
    /\ UNCHANGED <<users, calls, reqVars>>

\* 3) the load of users that computes newID
PostNewID(h) ==
    /\ handlers[h].pc = "newID"
    /\ handlers' = [handlers EXCEPT ![h].newID = NextID(users),
                                    ![h].pc = "load"]
    /\ UNCHANGED <<users, calls, reqVars>>

\* 4) append(users, newUser): the load of users
PostAppendLoad(h) ==
    /\ handlers[h].pc = "load"
    /\ handlers' = [handlers EXCEPT ![h].snap = users, ![h].pc = "store"]
    /\ UNCHANGED <<users, calls, reqVars>>

\* 4) users = ...: the store of the slice append returned
PostAppendStore(h) ==
    /\ handlers[h].pc = "store"
    /\ users' = Append(handlers[h].snap,
                       User(handlers[h].newID, handlers[h].name))
    /\ handlers' = [handlers EXCEPT ![h].pc = "respond"]
    /\ UNCHANGED <<calls, reqVars>>

\* 5) 201
PostRespond(h) ==
    /\ handlers[h].pc = "respond"
    /\ handlers' = [handlers EXCEPT ![h].status = StatusCreated,
                                    ![h].pc = "done"]
    /\ UNCHANGED <<users, calls, reqVars>>

UsersGet         == \E h \in Slots : HandleGet(h)
UsersOther       == \E h \in Slots : HandleOther(h)
UsersDecode      == \E h \in Slots : PostDecode(h)
UsersValidate    == \E h \in Slots : PostValidate(h)
UsersNewID       == \E h \in Slots : PostNewID(h)
UsersAppendLoad  == \E h \in Slots : PostAppendLoad(h)
UsersAppendStore == \E h \in Slots : PostAppendStore(h)
UsersRespond     == \E h \in Slots : PostRespond(h)

UsersNext ==
    \/ UsersGet
    \/ UsersOther
    \/ UsersDecode
    \/ UsersValidate
    \/ UsersNewID
    \/ UsersAppendLoad
    \/ UsersAppendStore
    \/ UsersRespond

UsersSpec == UsersInit /\ [][UsersNext]_vars

\* ------------------------------------------------------------ properties
TypeOK ==
    /\ hpc \in {"bind", "resolve", "spawn", "alloc", "collect", "respond", "done"}
    /\ ppc \in {"unborn", "send", "done"}
    /\ jobsClosed \in BOOLEAN
    /\ pi \in 0..N
    /\ ci \in 0..N
    /\ DOMAIN out \subseteq 0..(N - 1)

\* the pool call has returned its array to the handler
Returned == bindOk /\ hpc \in {"respond", "done"}

Indices == 0..(N - 1)

\* the outcomes that exist: built by a worker and not yet handed over, or
\* already stored in the array
Stored == { out[arrived[k]] : k \in 1..Len(arrived) }
Outcomes == ResultsHeld \cup Stored

\* C1: when the call has returned, the array has one slot per input record
\* and the outcome in slot i carries index i, whatever the worker count and
\* the interleaving were
C1_LengthAndIndex ==
    /\ Returned =>
          /\ DOMAIN out = Indices
          /\ \A i \in Indices : out[i].Index = i
    /\ (bindOk /\ hpc = "done") =>
          /\ response.count = N
          /\ DOMAIN response.results = Indices
          /\ \A i \in Indices : response.results[i].Index = i

C1_Witness ==
    /\ bindOk /\ hpc = "done"
    /\ N >= 2
    /\ workers = 20
    /\ \A i \in Indices : response.results[i].Index = i

\* C2: slot i of the returned array holds the verdict of record i, also when
\* the outcomes reached the collector in another order than the input's
C2_OrderPreserved ==
    Returned =>
        \A i \in Indices :
            /\ out[i].Valid = validateCustomer(req.Customers[i]).ok
            /\ out[i].Message = validateCustomer(req.Customers[i]).msg

\* a later record was collected before an earlier one, and the two verdicts differ
C2_Witness ==
    /\ Returned
    /\ \E a, b \in 1..Len(arrived) :
          /\ a < b
          /\ arrived[a] > arrived[b]
          /\ out[arrived[a]].Valid # out[arrived[b]].Valid

\* C3: under fair scheduling the request always ends: the batch call returns
\* and the handler answers 200
C3_Terminates ==
    <>(hpc = "done" /\ (bindOk => response.status = 200))

\* one worker has served a batch of the largest size
C3_Witness ==
    /\ bindOk /\ hpc = "done"
    /\ workers = 1
    /\ N = MaxBatch
    /\ response.status = 200

\* C4: every job index is received by a worker at most once and exactly once
\* as soon as the dispatcher has passed it; the outcomes built for it number
\* at most one, carry that index, and exactly one exists per index when the
\* call returns
C4_OneOutcomePerJob ==
    /\ \A i \in Indices :
          /\ taken[i] <= 1
          /\ produced[i] <= taken[i]
          /\ (ppc # "unborn" /\ pi > i) => taken[i] = 1
          /\ Returned => (taken[i] = 1 /\ produced[i] = 1)
    /\ \A j \in JobsHeld :
          /\ j.index \in Indices
          /\ j.data = req.Customers[j.index]
          /\ CopiesIn(Working(j), pool) = 1
    /\ \A r \in ResultsHeld :
          /\ r.Index \in Indices
          /\ CopiesIn(Sending(r), pool) = 1
    /\ \A k, l \in 1..Len(arrived) : k # l => arrived[k] # arrived[l]

C4_Witness ==
    /\ Returned
    /\ N = MaxBatch
    /\ workers = 2
    /\ \A i \in Indices : taken[i] = 1 /\ produced[i] = 1

\* the result as a function of the batch alone: no worker count, no schedule
Expected(cs) ==
    [i \in DOMAIN cs |->
        [Index   |-> i,
         Email   |-> TrimSpace(cs[i].Email),
         Valid   |-> validateCustomer(cs[i]).ok,
         Message |-> validateCustomer(cs[i]).msg]]

\* C5: the returned result equals a function of the batch alone, so any two
\* worker counts and any two schedules give the same result for a batch
C5_Deterministic ==
    /\ Returned => out = Expected(req.Customers)
    /\ (bindOk /\ hpc = "done") => response.results = Expected(req.Customers)

\* a run whose outcomes arrived in another order than the input's
C5_Witness ==
    /\ bindOk /\ hpc = "done"
    /\ workers >= 2
    /\ Len(arrived) >= 2
    /\ arrived[1] # 0
    /\ \E i, k \in Indices : req.Customers[i] # req.Customers[k]

\* C6: a requested count <= 0 becomes 5, one above 20 becomes 20, any other
\* is kept; workers exist only after that, never more than the resolved count,
\* and the count never leads to an error response
C6_WorkerCount ==
    /\ (bindOk /\ hpc \notin {"bind", "resolve"}) =>
          /\ workers = (IF req.Workers <= 0 THEN 5
                         ELSE IF req.Workers > 20 THEN 20
                         ELSE req.Workers)
          /\ workers \in 1..20
    /\ BagCardinality(pool) > 0 =>
          /\ hpc \notin {"bind", "resolve"}
          /\ workers \in 1..20
          /\ BagCardinality(pool) <= workers
    /\ (bindOk /\ hpc = "done") =>
          /\ response.status = 200
          /\ response.workers = workers

C6_Witness ==
    /\ bindOk /\ hpc = "done"
    /\ req.Workers > 20
    /\ workers = 20
    /\ BagCardinality(pool) = 20

\* the request goroutine waits for an outcome on resultsCh
WaitsOnResults == hpc = "collect" /\ CollectMore(ci, N)

\* C7 as stated: for an empty batch no worker is ever spawned
C7_NoWorkerSpawned ==
    (bindOk /\ N = 0) => BagCardinality(pool) = 0

\* C7 amended: for an empty batch the request goroutine never waits on a
\* queue and returns an empty result, but only after it has spawned all
\* the workers
C7_EmptyBatch ==
    (bindOk /\ N = 0) =>
        /\ ~WaitsOnResults
        /\ Returned => (out = <<>> /\ BagCardinality(pool) = workers)
        /\ hpc = "done" => (response.results = <<>> /\ response.count = 0)

C7_Witness ==
    /\ bindOk /\ hpc = "done"
    /\ N = 0
    /\ response.results = <<>>
    /\ BagCardinality(pool) = 5

\* the rules of the validator, each stated on the record itself
Blank(s) == \A k \in 1..Len(s) : isSpace(s[k])
Fails(c) ==
    { n \in 1..5 :
        \/ n = 1 /\ Blank(c.FullName)
        \/ n = 2 /\ Blank(c.Email)
        \/ n = 3 /\ \A k \in 1..Len(c.Email) : c.Email[k] # "@"
        \/ n = 4 /\ ByteLen(TrimSpace(c.Email)) > 150
        \/ n = 5 /\ HasSuffix(ToLower(TrimSpace(c.Email)), ExampleDomain) }

RuleMessage ==
    << "full_name is required",
       "email is required",
       "email must contain '@'",
       "email too long",
       "example.com emails are not allowed" >>

\* C8: the verdict on a record is the message of the lowest-numbered rule
\* that fails, and the record is valid exactly when no rule fails
C8_RulePrecedence ==
    \A r \in Outcomes :
        LET f == Fails(req.Customers[r.Index])
        IN  /\ r.Valid <=> (f = {})
            /\ f = {} => r.Message = ""
            /\ f # {} =>
                  r.Message = RuleMessage[CHOOSE n \in f : \A m \in f : n <= m]

\* a record failing rules 1 and 2 (and 3) is reported with rule 1 only
C8_Witness ==
    /\ Returned
    /\ N = 1
    /\ {1, 2} \subseteq Fails(req.Customers[0])
    /\ out[0].Message = "full_name is required"

\* C9: an outcome has a message exactly when it is invalid, and the
\* message of an invalid outcome is one of the five rule messages
C9_MessageIffInvalid ==
    \A r \in Outcomes :
        /\ (r.Message # "") <=> (r.Valid = FALSE)
        /\ r.Valid = FALSE => \E n \in 1..5 : r.Message = RuleMessage[n]

C9_Witness ==
    /\ Returned
    /\ N = 1
    /\ out[0].Valid = FALSE
    /\ out[0].Message = "example.com emails are not allowed"

HasInvalid == \E i \in Indices : ~validateCustomer(req.Customers[i]).ok

\* C10: a batch with invalid records is still served completely: every job
\* is dispatched and validated once and the handler answers 200 with N outcomes
C10_FailureNeverAborts ==
    (bindOk /\ HasInvalid) ~>
        /\ hpc = "done"
        /\ response.status = 200
        /\ DOMAIN response.results = Indices
        /\ \A i \in Indices : taken[i] = 1 /\ produced[i] = 1

\* an invalid first record, a valid later one, one worker for both
C10_Witness ==
    /\ bindOk /\ hpc = "done"
    /\ workers = 1
    /\ N >= 2
    /\ response.results[0].Valid = FALSE
    /\ response.results[1].Valid = TRUE

\* C11 as stated, lengths counted in characters: with a name and an '@',
\* a trimmed email of more than 150 characters gets "email too long" and one
\* of 150 characters or fewer never does
C11_TooLongInCharacters ==
    \A r \in Outcomes :
        LET c == req.Customers[r.Index]
            e == TrimSpace(c.Email)
        IN  (~Blank(c.FullName) /\ Contains(e, <<"@">>)) =>
                /\ Len(e) > 150 => r.Message = "email too long"
                /\ Len(e) <= 150 => r.Message # "email too long"

\* workers that hold a job or its outcome
Busy == BagCardinality(pool) - CopiesIn(Idle, pool) - CopiesIn(Exited, pool)

\* C12: exactly the resolved number of workers is spawned, and the jobs
\* taken from the task queue whose outcome the collector has not received
\* yet never number more than that
C12_BoundedParallelism ==
    (bindOk /\ hpc \notin {"bind", "resolve"}) =>
        /\ BagCardinality(pool) = w
        /\ w <= workers
        /\ hpc # "spawn" => BagCardinality(pool) = workers
        /\ pi - Len(arrived) = Busy
        /\ pi - Len(arrived) <= workers

\* every worker holds a job or an outcome while the dispatcher has more
C12_Witness ==
    /\ bindOk
    /\ workers = 2
    /\ BagCardinality(pool) = 2
    /\ pi - Len(arrived) = 2
    /\ ppc = "send" /\ pi < N

AllGone ==
    /\ ppc = "done"
    /\ BagCardinality(pool) = workers
    /\ CopiesIn(Exited, pool) = workers

\* C13: under fair scheduling the dispatcher and every spawned worker
\* end: no goroutine of the call stays blocked on a queue
C13_TornDown == bindOk ~> AllGone

C13_Witness ==
    /\ bindOk /\ hpc = "done"
    /\ workers = 20
    /\ N = MaxBatch
    /\ AllGone

\* C14: the task queue is closed only when all N jobs have been handed to
\* workers, by the dispatcher's last step and on an open queue; nothing is
\* sent after the close; a worker leaves its loop only on the closed queue;
\* and the close does happen
C14_CloseAfterSubmission ==
    /\ [](jobsClosed =>
            /\ pi = N
            /\ ppc = "done"
            /\ \A i \in 0..(N - 1) : taken[i] = 1)
    /\ [][ProducerClose => (~jobsClosed /\ jobsClosed')]_vars
    /\ [][jobsClosed => (jobsClosed' /\ taken' = taken /\ pi' = pi)]_vars
    /\ [][CopiesIn(Exited, pool') > CopiesIn(Exited, pool) => jobsClosed]_vars
    /\ (bindOk ~> jobsClosed)

C14_Witness ==
    /\ jobsClosed
    /\ N = MaxBatch
    /\ \A i \in 0..(N - 1) : taken[i] = 1
    /\ CopiesIn(Exited, pool) >= 1

\* C15: the array changes only in steps of the request goroutine (its
\* allocation and the collector's stores), a store changes the one slot of
\* the outcome's index, no slot is stored twice, and the call returns only
\* when N outcomes have been stored
C15_CollectorOwnsArray ==
    /\ [][out' # out =>
            \/ hpc = "alloc"
            \/ /\ hpc = "collect"
               /\ ci' = ci + 1
               /\ Len(arrived') = Len(arrived) + 1
               /\ \A i \in DOMAIN out :
                     i # arrived'[Len(arrived')] => out'[i] = out[i]]_vars
    /\ [][(ProducerSend \/ ProducerClose \/ WorkerProcessAny \/ WorkerExit)
            => out' = out]_vars
    /\ [](\A k, l \in 1..Len(arrived) : k # l => arrived[k] # arrived[l])
    /\ [](Returned =>
            /\ Len(arrived) = N
            /\ { arrived[k] : k \in 1..Len(arrived) } = 0..(N - 1))

C15_Witness ==
    /\ Returned
    /\ N = MaxBatch
    /\ Len(arrived) = N
    /\ arrived[1] = N - 1

\* C16 as stated: the dispatcher never has to wait: whenever it has a job
\* left to place, it can place it
C16_Eager ==
    (ppc = "send" /\ pi < N) => ENABLED ProducerSend

\* C16 amended: a job is placed only when a worker takes it, so the
\* dispatcher is never more than the worker count ahead of the collector
\* and closes the queue only when all but that many outcomes are collected
C16_HandOver ==
    (bindOk /\ hpc \notin {"bind", "resolve"}) =>
        /\ pi <= Len(arrived) + workers
        /\ (ppc = "send" /\ pi < N /\ Busy = workers) => ~ENABLED ProducerSend
        /\ jobsClosed => Len(arrived) >= N - workers

\* the dispatcher waits with jobs left: the only worker still holds job 0
C16_Witness ==
    /\ bindOk
    /\ workers = 1
    /\ ppc = "send" /\ pi = 1 /\ pi < N
    /\ Len(arrived) = 0
    /\ ~ENABLED ProducerSend

\* t is s without its leading and trailing white space
IsTrimOf(t, s) ==
    /\ \E a, b \in 0..Len(s) :
          /\ a + b <= Len(s)
          /\ \A k \in 1..a : isSpace(s[k])
          /\ \A k \in (Len(s) - b + 1)..Len(s) : isSpace(s[k])
          /\ t = SubSeq(s, a + 1, Len(s) - b)
    /\ t # <<>> => (~isSpace(t[1]) /\ ~isSpace(t[Len(t)]))

\* C18: the email of every outcome, valid or not, is the record's email
\* without surrounding white space, and the verdict is the one the rules
\* give on that trimmed email
C18_TrimmedEmail ==
    \A r \in Outcomes :
        LET c == req.Customers[r.Index]
        IN  /\ IsTrimOf(r.Email, c.Email)
            /\ [ok |-> r.Valid, msg |-> r.Message]
                  = Rules(TrimSpace(c.FullName), r.Email)

\* an email that is rejected for its domain only once it is trimmed
C18_Witness ==
    /\ Returned
    /\ N = 1
    /\ out[0].Email # req.Customers[0].Email
    /\ Len(out[0].Email) = Len(req.Customers[0].Email) - 2
    /\ out[0].Message = "example.com emails are not allowed"

\* C17: of two calls running at once, each collects only outcomes sent by
\* its own workers, its workers hold only jobs of its own batch, and each
\* returns the ordered result of its own batch
C17_CallsIsolated ==
    \A c \in CallIds :
        /\ \A k \in 1..Len(calls[c].from) : calls[c].from[k] = c
        /\ \A j \in CallJobsHeld(c) :
              /\ j.index \in DOMAIN calls[c].customers
              /\ j.data = calls[c].customers[j.index]
        /\ calls[c].pc = "returned" => calls[c].out = Expected(calls[c].customers)

\* both calls are in their collect loop and each has stored the outcome of
\* its own, different, record
C17_Witness ==
    /\ calls[1].customers # calls[2].customers
    /\ \A c \in CallIds :
          /\ CallN(c) >= 1
          /\ calls[c].pc = "collect"
          /\ calls[c].ci = 1
          /\ calls[c].out[0] = Expected(calls[c].customers)[0]

\* C19: in the /users handler all users have distinct IDs, and once every
\* request is answered the list holds the initial users and one user per
\* accepted POST
C19_DistinctIDs ==
    /\ \A i, k \in 1..Len(users) : i # k => users[i].ID # users[k].ID
    /\ (\A h \in DOMAIN handlers : handlers[h].pc = "done")
         => Len(users) = Len(InitialUsers)
              + Cardinality({ h \in DOMAIN handlers :
                                handlers[h].status = StatusCreated })
====
